---- MODULE Spec2Model ----
(***************************************************************************)
(* Model of MyAI (src/main.py): the move decision of a 4x4x4 gravity       *)
(* four-in-a-row engine.  The board is indexed board[z][y][x] as in the    *)
(* source; a move is a column <<x, y>>.                                    *)
(***************************************************************************)
EXTENDS Integers, Sequences, FiniteSets, TLC

(***************************************************************************)
(* Program constants.                                                      *)
(***************************************************************************)
\* range(4): the side of the board.
N == 4
\* Python's None where the source holds an int or None (a drop height, the
\* player argument): no cell and no height equals it.
PyNone == -1
\* Python's None for an Optional[Tuple[int, int]].
None == <<>>

Idx == 0 .. (N - 1)
Players == {1, 2}

InRange(v) == 0 <= v /\ v < N

\* The empty board: every cell 0.
EmptyBoard == [z \in Idx |-> [y \in Idx |-> [x \in Idx |-> 0]]]

Abs(v) == IF v < 0 THEN -v ELSE v
Min(a, b) == IF a < b THEN a ELSE b

(***************************************************************************)
(* get_drop_position: the first z of range(4) whose cell is 0.             *)
(***************************************************************************)
RECURSIVE DropScan(_, _, _, _)
DropScan(board, x, y, z) ==
    IF z = N THEN PyNone
    ELSE IF board[z][y][x] = 0 THEN z
    ELSE DropScan(board, x, y, z + 1)

\* get_drop_position scanning range(4) from the top: the highest empty z.
get_drop_position_from_top(board, x, y) ==
    IF ~(InRange(x) /\ InRange(y)) THEN PyNone
    ELSE IF \E z \in Idx : board[z][y][x] = 0
         THEN CHOOSE z \in Idx : /\ board[z][y][x] = 0
                                 /\ \A w \in Idx : w > z => board[w][y][x] # 0
         ELSE PyNone

get_drop_position(board, x, y) ==
    IF ~(InRange(x) /\ InRange(y)) THEN PyNone
    ELSE DropScan(board, x, y, 0)

(***************************************************************************)
(* check_win_fast: for each of the 13 direction pairs, 1 plus the run of   *)
(* player cells in either direction from (x, y, z); a win when >= 4.       *)
(***************************************************************************)
WinDirections ==
    << << <<1,0,0>>,  <<-1,0,0>>  >>,
       << <<0,1,0>>,  <<0,-1,0>>  >>,
       << <<0,0,1>>,  <<0,0,-1>>  >>,
       << <<1,1,0>>,  <<-1,-1,0>> >>,
       << <<1,-1,0>>, <<-1,1,0>>  >>,
       << <<1,0,1>>,  <<-1,0,-1>> >>,
       << <<1,0,-1>>, <<-1,0,1>>  >>,
       << <<0,1,1>>,  <<0,-1,-1>> >>,
       << <<0,1,-1>>, <<0,-1,1>>  >>,
       << <<1,1,1>>,  <<-1,-1,-1>> >>,
       << <<1,1,-1>>, <<-1,-1,1>> >>,
       << <<1,-1,1>>, <<-1,1,-1>> >>,
       << <<1,-1,-1>>, <<-1,1,1>> >> >>

\* The while loop of check_win_fast and has_horizontal_potential: the number
\* of consecutive player cells from (nx, ny, nz) onwards in direction d.
RECURSIVE RunLength(_, _, _, _, _, _)
RunLength(board, player, nx, ny, nz, d) ==
    IF InRange(nx) /\ InRange(ny) /\ InRange(nz) /\ board[nz][ny][nx] = player
    THEN 1 + RunLength(board, player, nx + d[1], ny + d[2], nz + d[3], d)
    ELSE 0

\* PairCount scanning only the first direction of the pair.
PairCountForward(board, player, x, y, z, pair) ==
    1 + RunLength(board, player, x + pair[1][1], y + pair[1][2], z + pair[1][3], pair[1])

PairCount(board, player, x, y, z, pair) ==
    1 + RunLength(board, player, x + pair[1][1], y + pair[1][2], z + pair[1][3], pair[1])
      + RunLength(board, player, x + pair[2][1], y + pair[2][2], z + pair[2][3], pair[2])

\* check_win_fast with the test count > 4 for count >= 4.
check_win_fast_over_four(board, player, x, y, z) ==
    \E k \in 1 .. Len(WinDirections) :
        PairCount(board, player, x, y, z, WinDirections[k]) > 4

check_win_fast(board, player, x, y, z) ==
    \E k \in 1 .. Len(WinDirections) :
        PairCount(board, player, x, y, z, WinDirections[k]) >= 4

(***************************************************************************)
(* get_all_winning_lines: the list of lines in the order the source        *)
(* appends them; a line is a sequence of four cells <<x, y, z>>.           *)
(***************************************************************************)
VerticalLines ==
    [k \in 1 .. 16 |-> [i \in 1 .. 4 |-> << (k - 1) \div 4, (k - 1) % 4, i - 1 >>]]
HorizontalXLines ==
    [k \in 1 .. 16 |-> [i \in 1 .. 4 |-> << i - 1, (k - 1) % 4, (k - 1) \div 4 >>]]
HorizontalYLines ==
    [k \in 1 .. 16 |-> [i \in 1 .. 4 |-> << (k - 1) % 4, i - 1, (k - 1) \div 4 >>]]
DiagonalXYLines ==
    [k \in 1 .. 8 |-> [i \in 1 .. 4 |->
        IF k % 2 = 1 THEN << i - 1, i - 1, (k - 1) \div 2 >>
                     ELSE << i - 1, 3 - (i - 1), (k - 1) \div 2 >>]]
DiagonalXZLines ==
    [k \in 1 .. 8 |-> [i \in 1 .. 4 |->
        IF k % 2 = 1 THEN << i - 1, (k - 1) \div 2, i - 1 >>
                     ELSE << i - 1, (k - 1) \div 2, 3 - (i - 1) >>]]
DiagonalYZLines ==
    [k \in 1 .. 8 |-> [i \in 1 .. 4 |->
        IF k % 2 = 1 THEN << (k - 1) \div 2, i - 1, i - 1 >>
                     ELSE << (k - 1) \div 2, i - 1, 3 - (i - 1) >>]]
\* SpaceDiagonalLines with the last diagonal written (3-i, 3-i, 3-i): the
\* first one once more, reversed.
SpaceDiagonalLinesRepeated ==
    << [i \in 1 .. 4 |-> << i - 1, i - 1, i - 1 >>],
       [i \in 1 .. 4 |-> << i - 1, i - 1, 3 - (i - 1) >>],
       [i \in 1 .. 4 |-> << i - 1, 3 - (i - 1), i - 1 >>],
       [i \in 1 .. 4 |-> << 3 - (i - 1), 3 - (i - 1), 3 - (i - 1) >>] >>

SpaceDiagonalLines ==
    << [i \in 1 .. 4 |-> << i - 1, i - 1, i - 1 >>],
       [i \in 1 .. 4 |-> << i - 1, i - 1, 3 - (i - 1) >>],
       [i \in 1 .. 4 |-> << i - 1, 3 - (i - 1), i - 1 >>],
       [i \in 1 .. 4 |-> << 3 - (i - 1), i - 1, i - 1 >>] >>

get_all_winning_lines ==
    VerticalLines \o HorizontalXLines \o HorizontalYLines \o DiagonalXYLines
        \o DiagonalXZLines \o DiagonalYZLines \o SpaceDiagonalLines

(***************************************************************************)
(* is_position_playable: the cell is the drop position of its column.      *)
(***************************************************************************)
\* is_position_playable asking only whether the column has a drop position,
\* not whether it is z.
is_position_playable_any_height(board, pos) ==
    get_drop_position(board, pos[1], pos[2]) # PyNone

is_position_playable(board, pos) ==
    get_drop_position(board, pos[1], pos[2]) = pos[3]

(***************************************************************************)
(* is_diagonal_line: the step from line[0] to line[1] changes two or three *)
(* coordinates.                                                            *)
(***************************************************************************)
is_diagonal_line(line) ==
    IF Len(line) # 4 THEN FALSE
    ELSE LET x_diff == line[2][1] - line[1][1]
             y_diff == line[2][2] - line[1][2]
             z_diff == line[2][3] - line[1][3]
             non_zero_diffs == (IF x_diff # 0 THEN 1 ELSE 0)
                             + (IF y_diff # 0 THEN 1 ELSE 0)
                             + (IF z_diff # 0 THEN 1 ELSE 0)
         IN  non_zero_diffs >= 2

(***************************************************************************)
(* has_horizontal_potential: along Y or along X, the cell plus the runs of *)
(* player cells on either side count at least 2.                           *)
(***************************************************************************)
HorizontalDirections ==
    << << <<0,1,0>>, <<0,-1,0>> >>,
       << <<1,0,0>>, <<-1,0,0>> >> >>

has_horizontal_potential(board, x, y, z, player) ==
    \E k \in 1 .. Len(HorizontalDirections) :
        PairCount(board, player, x, y, z, HorizontalDirections[k]) >= 2

(***************************************************************************)
(* detect_figure_7_pattern.                                                *)
(***************************************************************************)
detect_figure_7_pattern(board, line, player) ==
    IF Len(line) # 4 THEN FALSE
    ELSE IF ~ is_diagonal_line(line) THEN FALSE
    ELSE LET our_positions ==
                 {i \in 1 .. 4 : board[line[i][3]][line[i][2]][line[i][1]] = player}
         IN  /\ Cardinality(our_positions) >= 2
             /\ \E i \in our_positions :
                    has_horizontal_potential(board, line[i][1], line[i][2], line[i][3], player)

(***************************************************************************)
(* analyze_line_threats: the four flags of one line.                       *)
(***************************************************************************)
NoThreat ==
    [immediate_threat |-> FALSE, potential_threat |-> FALSE,
     blocking_needed |-> FALSE, figure_7_setup |-> FALSE]

analyze_line_threats(board, line, player, opponent) ==
    LET Cell(i) == board[line[i][3]][line[i][2]][line[i][1]]
        our_count == Cardinality({i \in 1 .. 4 : Cell(i) = player})
        their_count == Cardinality({i \in 1 .. 4 : Cell(i) # player /\ Cell(i) = opponent})
        empty_positions ==
            SelectSeq(line, LAMBDA c : board[c[3]][c[2]][c[1]] # player
                                       /\ board[c[3]][c[2]][c[1]] # opponent)
    IN  IF our_count > 0 /\ their_count > 0 THEN NoThreat
        ELSE [immediate_threat |->
                  our_count = 3 /\ Len(empty_positions) = 1
                  /\ is_position_playable(board, empty_positions[1]),
              blocking_needed |->
                  their_count = 3 /\ Len(empty_positions) = 1
                  /\ is_position_playable(board, empty_positions[1]),
              potential_threat |->
                  our_count = 2 /\ Len(empty_positions) = 2
                  /\ \E i \in 1 .. Len(empty_positions) :
                         is_position_playable(board, empty_positions[i]),
              figure_7_setup |-> detect_figure_7_pattern(board, line, player)]

(***************************************************************************)
(* evaluate_center_control: +/- (z + 1) * 2 per piece in the four central  *)
(* columns.                                                                *)
(***************************************************************************)
CenterPositions == << <<1, 1>>, <<1, 2>>, <<2, 1>>, <<2, 2>> >>

RECURSIVE CenterSum(_, _, _)
CenterSum(board, player, k) ==
    IF k = 16 THEN 0
    ELSE LET c == CenterPositions[(k \div 4) + 1]
             z == k % 4
             cell == board[z][c[2]][c[1]]
         IN  (IF cell = player THEN (z + 1) * 2
              ELSE IF cell = 3 - player THEN -((z + 1) * 2)
              ELSE 0) + CenterSum(board, player, k + 1)

evaluate_center_control(board, player) == CenterSum(board, player, 0)

(***************************************************************************)
(* analyze_threat_space: the threat score of a position for player.        *)
(***************************************************************************)
LineScore(a) ==
    (IF a.immediate_threat THEN 10000
     ELSE IF a.potential_threat THEN 1000
     ELSE IF a.blocking_needed THEN -500
     ELSE 0)
    + (IF a.figure_7_setup THEN 2000 ELSE 0)

RECURSIVE ThreatSum(_, _, _, _)
\* <<score, immediate_threats>> accumulated over lines lo .. hi of the list
\* (the loop of analyze_threat_space, summed by halves).
ThreatSum(board, player, lo, hi) ==
    IF lo = hi
    THEN LET a == analyze_line_threats(board, get_all_winning_lines[lo], player, 3 - player)
         IN  << LineScore(a), IF a.immediate_threat THEN 1 ELSE 0 >>
    ELSE LET mid == (lo + hi) \div 2
             l == ThreatSum(board, player, lo, mid)
             r == ThreatSum(board, player, mid + 1, hi)
         IN  << l[1] + r[1], l[2] + r[2] >>

analyze_threat_space(board, player) ==
    LET t == ThreatSum(board, player, 1, Len(get_all_winning_lines))
    IN  t[1] + (IF t[2] >= 2 THEN 5000 ELSE 0)
             + evaluate_center_control(board, player) * 10

(***************************************************************************)
(* find_immediate_win: the first column, x-major, whose drop wins for      *)
(* player.  The piece is written to the board, tested and cleared again;   *)
(* the result carries the board as the scan leaves it.                     *)
(***************************************************************************)
RECURSIVE ImmediateWinScan(_, _, _)
ImmediateWinScan(board, player, k) ==
    IF k = N * N THEN [move |-> None, board |-> board]
    ELSE LET x == k \div N
             y == k % N
             drop_z == get_drop_position(board, x, y)
         IN  IF drop_z = PyNone THEN ImmediateWinScan(board, player, k + 1)
             ELSE LET placed == [board EXCEPT ![drop_z][y][x] = player]
                      undone == [placed EXCEPT ![drop_z][y][x] = 0]
                  IN  IF check_win_fast(placed, player, x, y, drop_z)
                      THEN [move |-> << x, y >>, board |-> undone]
                      ELSE ImmediateWinScan(undone, player, k + 1)

\* find_immediate_win returning a win before it clears the simulated piece.
find_immediate_win_keeps_piece(board, player) ==
    LET r == ImmediateWinScan(board, player, 0)
    IN  IF r.move = None THEN r
        ELSE [move |-> r.move,
              board |-> [r.board EXCEPT
                  ![get_drop_position(r.board, r.move[1], r.move[2])][r.move[2]][r.move[1]] = player]]

find_immediate_win(board, player) == ImmediateWinScan(board, player, 0)

(***************************************************************************)
(* is_early_game and get_opening_move.                                     *)
(***************************************************************************)
MoveCount(board) ==
    Cardinality({c \in Idx \X Idx \X Idx : board[c[3]][c[2]][c[1]] # 0})

is_early_game(board) == MoveCount(board) <= 4

OpeningCenterPositions == << <<1, 2>>, <<2, 1>>, <<2, 2>> >>

\* The first column of a list that has room, or None.
RECURSIVE FirstWithRoom(_, _, _)
FirstWithRoom(board, columns, i) ==
    IF i > Len(columns) THEN None
    ELSE IF get_drop_position(board, columns[i][1], columns[i][2]) # PyNone
         THEN columns[i]
         ELSE FirstWithRoom(board, columns, i + 1)

\* get_opening_move with the first move at index (0, 0) for the centre.
get_opening_move_corner(board, player) ==
    LET move_count == MoveCount(board)
    IN  IF move_count = 0 /\ player = 1 THEN << 0, 0 >>
        ELSE IF move_count = 1 /\ player = 2
             THEN (IF board[0][1][1] = 1 THEN << 2, 2 >> ELSE None)
        ELSE IF move_count = 2 /\ player = 1
             THEN FirstWithRoom(board, OpeningCenterPositions, 1)
        ELSE None

get_opening_move(board, player) ==
    LET move_count == MoveCount(board)
    IN  IF move_count = 0 /\ player = 1 THEN << 1, 1 >>
        ELSE IF move_count = 1 /\ player = 2
             THEN (IF board[0][1][1] = 1 THEN << 2, 2 >> ELSE None)
        ELSE IF move_count = 2 /\ player = 1
             THEN FirstWithRoom(board, OpeningCenterPositions, 1)
        ELSE None

(***************************************************************************)
(* The three deadlines the elapsed time is tested against, in the order of *)
(* their length: max_time - 2.0, max_time - 1.0, max_time - 0.5.           *)
(***************************************************************************)
\* time.time() - start_time > self.max_time - 2.0
DoubleThreatDeadline == 1
\* time.time() - start_time > self.max_time - 1.0
SearchDeadline == 2
\* time.time() - start_time > self.max_time - 0.5
LoopDeadline == 3

(***************************************************************************)
(* find_double_threat_move: the first column, x-major, of strictly highest *)
(* threat score after the drop, kept when that score is at least 2000.     *)
(***************************************************************************)
RECURSIVE DoubleThreatScan(_, _, _, _, _)
DoubleThreatScan(board, player, k, best_move, max_threat_score) ==
    IF k = N * N
    THEN [best_move |-> best_move, max_threat_score |-> max_threat_score, board |-> board]
    ELSE LET x == k \div N
             y == k % N
             drop_z == get_drop_position(board, x, y)
         IN  IF drop_z = PyNone
             THEN DoubleThreatScan(board, player, k + 1, best_move, max_threat_score)
             ELSE LET placed == [board EXCEPT ![drop_z][y][x] = player]
                      threat_score == analyze_threat_space(placed, player)
                      undone == [placed EXCEPT ![drop_z][y][x] = 0]
                  IN  IF threat_score > max_threat_score
                      THEN DoubleThreatScan(undone, player, k + 1, << x, y >>, threat_score)
                      ELSE DoubleThreatScan(undone, player, k + 1, best_move, max_threat_score)

\* late: the outcome of the test of line 133, elapsed > max_time - 2.0.
find_double_threat_move(board, player, late) ==
    IF late THEN [move |-> None, board |-> board]
    ELSE LET r == DoubleThreatScan(board, player, 0, None, 0)
         IN  [move |-> IF r.max_threat_score >= 2000 THEN r.best_move ELSE None,
              board |-> r.board]

(***************************************************************************)
(* evaluate_position_control.  abs(x - 1.5) + abs(y - 1.5) is a whole      *)
(* number, (Abs(2x - 3) + Abs(2y - 3)) / 2, so the score is an integer.    *)
(***************************************************************************)
LinesThrough(x, y, z) ==
    {k \in 1 .. Len(get_all_winning_lines) :
        \E i \in 1 .. 4 : get_all_winning_lines[k][i] = << x, y, z >>}

evaluate_position_control(board, x, y, z, player) ==
    LET center_distance == (Abs(2 * x - 3) + Abs(2 * y - 3)) \div 2
    IN  (3 - center_distance) * 50 + z * 20 + Cardinality(LinesThrough(x, y, z)) * 30

(***************************************************************************)
(* calculate_connectivity: the neighbours, among the 26 directions, that   *)
(* hold player.                                                            *)
(***************************************************************************)
NeighbourDirections ==
    {d \in {-1, 0, 1} \X {-1, 0, 1} \X {-1, 0, 1} : d # << 0, 0, 0 >>}

calculate_connectivity(board, x, y, z, player) ==
    Cardinality({d \in NeighbourDirections :
        /\ InRange(x + d[1]) /\ InRange(y + d[2]) /\ InRange(z + d[3])
        /\ board[z + d[3]][y + d[2]][x + d[1]] = player})

(***************************************************************************)
(* calculate_blocking_value: writes the opponent's piece to the cell,      *)
(* scores the opponent's threats, then writes 0 to the cell.               *)
(***************************************************************************)
calculate_blocking_value(board, x, y, z, opponent) ==
    LET placed == [board EXCEPT ![z][y][x] = opponent]
        opponent_threats == analyze_threat_space(placed, opponent)
    IN  [value |-> Min(opponent_threats \div 100, 50),
         board |-> [placed EXCEPT ![z][y][x] = 0]]

(***************************************************************************)
(* calculate_future_potential: 10 per line through the cell with one own   *)
(* piece and three empty cells, 25 per line with two and two.              *)
(***************************************************************************)
LinePotential(board, line, player) ==
    LET our_count == Cardinality({i \in 1 .. 4 :
                         board[line[i][3]][line[i][2]][line[i][1]] = player})
        empty_count == Cardinality({i \in 1 .. 4 :
                         board[line[i][3]][line[i][2]][line[i][1]] = 0})
    IN  IF our_count = 1 /\ empty_count = 3 THEN 10
        ELSE IF our_count = 2 /\ empty_count = 2 THEN 25
        ELSE 0

RECURSIVE PotentialSum(_, _, _)
PotentialSum(board, player, ks) ==
    IF ks = {} THEN 0
    ELSE LET k == CHOOSE k \in ks : TRUE
         IN  LinePotential(board, get_all_winning_lines[k], player)
                 + PotentialSum(board, player, ks \ {k})

calculate_future_potential(board, x, y, z, player) ==
    PotentialSum(board, player, LinesThrough(x, y, z))

(***************************************************************************)
(* get_ordered_moves: the central columns with room, then the others,      *)
(* x-major.                                                                *)
(***************************************************************************)
AllColumns == [k \in 1 .. N * N |-> << (k - 1) \div N, (k - 1) % N >>]

IsCenterMove(c) == \E i \in 1 .. Len(CenterPositions) : CenterPositions[i] = c

get_ordered_moves(board) ==
    SelectSeq(CenterPositions,
              LAMBDA c : get_drop_position(board, c[1], c[2]) # PyNone)
    \o SelectSeq(AllColumns,
                 LAMBDA c : ~ IsCenterMove(c)
                            /\ get_drop_position(board, c[1], c[2]) # PyNone)

(***************************************************************************)
(* strategic_fallback and safe_emergency_move.                             *)
(***************************************************************************)
PriorityMoves ==
    << <<1, 1>>, <<2, 2>>, <<1, 2>>, <<2, 1>>,
       <<0, 1>>, <<1, 0>>, <<3, 2>>, <<2, 3>>,
       <<0, 0>>, <<3, 3>>, <<0, 3>>, <<3, 0>> >>

\* strategic_fallback returning the first priority column without asking
\* whether it has room.
strategic_fallback_unchecked(board) == PriorityMoves[1]

strategic_fallback(board) ==
    LET first == FirstWithRoom(board, PriorityMoves, 1)
        any == FirstWithRoom(board, AllColumns, 1)
    IN  IF first # None THEN first
        ELSE IF any # None THEN any
        ELSE << 0, 0 >>

SafePositions == << <<1, 1>>, <<2, 2>>, <<0, 0>> >>

safe_emergency_move(board) ==
    LET first == FirstWithRoom(board, SafePositions, 1)
    IN  IF first # None THEN first ELSE << 0, 0 >>

(***************************************************************************)
(* The boards and players get_move is called with.  A board is built from  *)
(* gravity-respecting column stacks: each of the first NumActive columns   *)
(* of ActiveColumns holds one of ColumnStacks, and every other column      *)
(* holds the background stack, which is empty (an early position) or full  *)
(* (a late one).                                                           *)
(***************************************************************************)
NumActive == 2

ActiveColumns == << <<1, 1>>, <<3, 3>>, <<2, 2>>, <<0, 0>> >>

FullStack == <<1, 2, 1, 2>>

ColumnStacks == { << >>, <<1>>, <<2>>, <<1, 1, 1>>, <<2, 2, 2>>, FullStack }

BackgroundStacks == { << >>, FullStack }

\* The cell at height z of a column holding stack, bottom first.
StackCell(stack, z) == IF z < Len(stack) THEN stack[z + 1] ELSE 0

\* The board whose column ActiveColumns[i] holds stacks[i], the others
\* background.
BoardOfStacks(stacks, background) ==
    [z \in Idx |-> [y \in Idx |-> [x \in Idx |->
        IF \E i \in 1 .. NumActive : ActiveColumns[i] = << x, y >>
        THEN StackCell(stacks[CHOOSE i \in 1 .. NumActive : ActiveColumns[i] = << x, y >>], z)
        ELSE StackCell(background, z)]]]

Boards ==
    {BoardOfStacks(stacks, background) :
        stacks \in [1 .. NumActive -> ColumnStacks], background \in BackgroundStacks}

\* The player argument: 1 or 2, or None (a caller's mistake).
PlayerArguments == Players \cup {PyNone}

\* float('-inf'): below every score evaluate_move_advanced can return.
NegInf == -1000000

VARIABLES
    pc,          \* where get_move stands
    board,       \* the caller's board, the list get_move works on
    passed,      \* the board as it was when get_move was called
    player,      \* the player argument
    elapsed,     \* the longest deadline a test has found passed
    result,      \* the move get_move returned, None before it returns
    stage,       \* the stage that returned it
    moves,       \* advanced_move_search: the ordered candidates
    idx,         \* advanced_move_search: position in moves (from 1)
    best_move,   \* advanced_move_search: best candidate so far
    best_score,  \* advanced_move_search: its score
    cand,        \* the cell <<x, y, z>> of the piece written last
    score,       \* evaluate_move_advanced: the parts of the score so far
    scores       \* advanced_move_search: the score line 383 got for each
                 \* candidate evaluated so far, in order

vars == << pc, board, passed, player, elapsed, result, stage,
           moves, idx, best_move, best_score, cand, score, scores >>

searchVars == << moves, idx, best_move, best_score, cand, score, scores >>

NoScore == [threat |-> 0, position |-> 0, connectivity |-> 0,
            blocking |-> 0, future |-> 0]

Init ==
    /\ pc = "idle"
    /\ board = EmptyBoard
    /\ passed = EmptyBoard
    /\ player = 1
    /\ elapsed = 0
    /\ result = None
    /\ stage = "none"
    /\ moves = << >>
    /\ idx = 1
    /\ best_move = None
    /\ best_score = NegInf
    /\ cand = << >>
    /\ score = NoScore
    /\ scores = << >>

(***************************************************************************)
(* A test time.time() - start_time > deadline with outcome late.  Time     *)
(* does not run backwards: once a deadline was found passed, every test    *)
(* against it or a shorter one finds it passed.                            *)
(***************************************************************************)
ClockTest(deadline, late) ==
    /\ elapsed >= deadline => late
    /\ elapsed' = IF late /\ elapsed < deadline THEN deadline ELSE elapsed

\* get_move returns move from the stage named.
Return(move, name) ==
    /\ pc' = "done"
    /\ result' = move
    /\ stage' = name

(***************************************************************************)
(* get_move is called: start_time is taken.                                *)
(***************************************************************************)
GetMoveCall ==
    /\ pc = "idle"
    /\ \E b \in Boards, p \in PlayerArguments :
          /\ board' = b
          /\ passed' = b
          /\ player' = p
    /\ pc' = "win"
    /\ elapsed' = 0
    /\ result' = None
    /\ stage' = "none"
    /\ UNCHANGED searchVars

\* StageWin with the two critical checks in the other order: the block is
\* looked for first.
StageWinAfterBlock ==
    /\ pc = "win"
    /\ \E block \in {find_immediate_win(board, 3 - player)} :
          IF block.move # None /\ player # PyNone
          THEN /\ board' = block.board
               /\ Return(block.move, "block")
          ELSE \E win \in {find_immediate_win(board, player)} :
                  /\ board' = win.board
                  /\ IF win.move # None
                     THEN Return(win.move, "win")
                     ELSE pc' = "block" /\ UNCHANGED << result, stage >>
    /\ UNCHANGED << passed, player, elapsed, searchVars >>

(***************************************************************************)
(* Stage 1, lines 27-30: the mover's immediate win.                        *)
(***************************************************************************)
StageWin ==
    /\ pc = "win"
    /\ \E win \in {find_immediate_win(board, player)} :
          /\ board' = win.board
          /\ IF win.move # None
             THEN Return(win.move, "win")
             ELSE pc' = "block" /\ UNCHANGED << result, stage >>
    /\ UNCHANGED << passed, player, elapsed, searchVars >>

\* StageBlock looking for the mover's win once more, not the opponent's.
StageBlockOwnPiece ==
    /\ pc = "block"
    /\ IF player = PyNone
       THEN /\ Return(safe_emergency_move(board), "emergency")
            /\ UNCHANGED board
       ELSE \E block \in {find_immediate_win(board, player)} :
               /\ board' = block.board
               /\ IF block.move # None
                  THEN Return(block.move, "block")
                  ELSE pc' = "opening" /\ UNCHANGED << result, stage >>
    /\ UNCHANGED << passed, player, elapsed, searchVars >>

(***************************************************************************)
(* Stage 2, lines 32-36: the opponent's immediate win.  3 - player raises  *)
(* TypeError for a player that is None; get_move catches it and returns    *)
(* safe_emergency_move (lines 64-65).                                      *)
(***************************************************************************)
StageBlock ==
    /\ pc = "block"
    /\ IF player = PyNone
       THEN /\ Return(safe_emergency_move(board), "emergency")
            /\ UNCHANGED board
       ELSE \E block \in {find_immediate_win(board, 3 - player)} :
               /\ board' = block.board
               /\ IF block.move # None
                  THEN Return(block.move, "block")
                  ELSE pc' = "opening" /\ UNCHANGED << result, stage >>
    /\ UNCHANGED << passed, player, elapsed, searchVars >>

(***************************************************************************)
(* Stage 3, lines 41-44: the opening book.                                 *)
(***************************************************************************)
StageOpening ==
    /\ pc = "opening"
    /\ \E opening_move \in {IF is_early_game(board)
                            THEN get_opening_move(board, player)
                            ELSE None} :
          IF opening_move # None
          THEN Return(opening_move, "opening")
          ELSE pc' = "double_threat" /\ UNCHANGED << result, stage >>
    /\ UNCHANGED << board, passed, player, elapsed, searchVars >>

(***************************************************************************)
(* Stage 4, lines 49-51: the mover's double threat.                        *)
(***************************************************************************)
StageDoubleThreat ==
    /\ pc = "double_threat"
    /\ \E late \in BOOLEAN :
          /\ ClockTest(DoubleThreatDeadline, late)
          /\ \E found \in {find_double_threat_move(board, player, late)} :
                /\ board' = found.board
                /\ IF found.move # None
                   THEN Return(found.move, "double_threat")
                   ELSE pc' = "block_double" /\ UNCHANGED << result, stage >>
    /\ UNCHANGED << passed, player, searchVars >>

(***************************************************************************)
(* Stage 5, lines 54-56: the opponent's double threat.                     *)
(***************************************************************************)
StageBlockDouble ==
    /\ pc = "block_double"
    /\ \E late \in BOOLEAN :
          /\ ClockTest(DoubleThreatDeadline, late)
          /\ \E found \in {find_double_threat_move(board, 3 - player, late)} :
                /\ board' = found.board
                /\ IF found.move # None
                   THEN Return(found.move, "block_double")
                   ELSE pc' = "search" /\ UNCHANGED << result, stage >>
    /\ UNCHANGED << passed, player, searchVars >>

(***************************************************************************)
(* Stage 6, advanced_move_search lines 365-372: past max_time - 1.0 the    *)
(* search returns strategic_fallback; otherwise the candidates are listed. *)
(***************************************************************************)
SearchStart ==
    /\ pc = "search"
    /\ \E late \in BOOLEAN :
          /\ ClockTest(SearchDeadline, late)
          /\ IF late
             THEN /\ Return(strategic_fallback(board), "search")
                  /\ UNCHANGED searchVars
             ELSE /\ pc' = "loop"
                  /\ moves' = get_ordered_moves(board)
                  /\ idx' = 1
                  /\ best_move' = None
                  /\ best_score' = NegInf
                  /\ scores' = << >>
                  /\ UNCHANGED << result, stage, cand, score >>
    /\ UNCHANGED << board, passed, player >>

\* Lines 389 and 62: the search is over; without a best move get_move
\* returns strategic_fallback (stage 7).
SearchEnd ==
    IF best_move # None
    THEN Return(best_move, "search")
    ELSE Return(strategic_fallback(board), "fallback")

(***************************************************************************)
(* advanced_move_search lines 374-380: the head of the candidate loop.     *)
(***************************************************************************)
SearchLoop ==
    /\ pc = "loop"
    /\ IF idx > Len(moves)
       THEN SearchEnd /\ UNCHANGED << elapsed, idx, cand >>
       ELSE \E late \in BOOLEAN :
               /\ ClockTest(LoopDeadline, late)
               /\ IF late
                  THEN SearchEnd /\ UNCHANGED << idx, cand >>
                  ELSE \E drop_z \in {get_drop_position(board, moves[idx][1], moves[idx][2])} :
                          IF drop_z = PyNone
                          THEN /\ idx' = idx + 1
                               /\ UNCHANGED << pc, result, stage, cand >>
                          ELSE /\ pc' = "evaluate"
                               /\ cand' = << moves[idx][1], moves[idx][2], drop_z >>
                               /\ UNCHANGED << idx, result, stage >>
    /\ UNCHANGED << board, passed, player, moves, best_move, best_score,
                    score, scores >>

(***************************************************************************)
(* evaluate_move_advanced, lines 397-416, step by step.                    *)
(***************************************************************************)
\* Line 397: the simulated placement.
EvalSimulate ==
    /\ pc = "evaluate"
    /\ board' = [board EXCEPT ![cand[3]][cand[2]][cand[1]] = player]
    /\ score' = NoScore
    /\ pc' = "threat"
    /\ UNCHANGED << passed, player, elapsed, result, stage,
                    moves, idx, best_move, best_score, cand, scores >>

\* Lines 403-404.
EvalThreatSpace ==
    /\ pc = "threat"
    /\ score' = [score EXCEPT !.threat = analyze_threat_space(board, player)]
    /\ pc' = "position"
    /\ UNCHANGED << board, passed, player, elapsed, result, stage,
                    moves, idx, best_move, best_score, cand, scores >>

\* Lines 407-408.
EvalPositionControl ==
    /\ pc = "position"
    /\ score' = [score EXCEPT !.position =
                    evaluate_position_control(board, cand[1], cand[2], cand[3], player)]
    /\ pc' = "connectivity"
    /\ UNCHANGED << board, passed, player, elapsed, result, stage,
                    moves, idx, best_move, best_score, cand, scores >>

\* evaluate_strategic_value, lines 446-447.
EvalConnectivity ==
    /\ pc = "connectivity"
    /\ score' = [score EXCEPT !.connectivity =
                    calculate_connectivity(board, cand[1], cand[2], cand[3], player)]
    /\ pc' = "blocking"
    /\ UNCHANGED << board, passed, player, elapsed, result, stage,
                    moves, idx, best_move, best_score, cand, scores >>

\* evaluate_strategic_value, lines 450-451.
EvalBlockingValue ==
    /\ pc = "blocking"
    /\ \E blocking \in {calculate_blocking_value(board, cand[1], cand[2], cand[3], 3 - player)} :
          /\ board' = blocking.board
          /\ score' = [score EXCEPT !.blocking = blocking.value]
    /\ pc' = "future"
    /\ UNCHANGED << passed, player, elapsed, result, stage,
                    moves, idx, best_move, best_score, cand, scores >>

\* evaluate_strategic_value, lines 454-455.
EvalFuturePotential ==
    /\ pc = "future"
    /\ score' = [score EXCEPT !.future =
                    calculate_future_potential(board, cand[1], cand[2], cand[3], player)]
    /\ pc' = "rollback"
    /\ UNCHANGED << board, passed, player, elapsed, result, stage,
                    moves, idx, best_move, best_score, cand, scores >>

\* The score evaluate_move_advanced returns, from its parts (lines 404, 408,
\* 412 and 447-455).
TotalScore(s) ==
    s.threat + s.position + (s.connectivity * 25 + s.blocking * 40 + s.future * 15)

\* EvalRollback with score >= best_score at line 385: of equal scores the
\* later candidate is kept.
EvalRollbackLastWins ==
    /\ pc = "rollback"
    /\ board' = [board EXCEPT ![cand[3]][cand[2]][cand[1]] = 0]
    /\ IF TotalScore(score) >= best_score
       THEN /\ best_score' = TotalScore(score)
            /\ best_move' = << cand[1], cand[2] >>
       ELSE UNCHANGED << best_score, best_move >>
    /\ scores' = Append(scores, TotalScore(score))
    /\ idx' = idx + 1
    /\ pc' = "loop"
    /\ UNCHANGED << passed, player, elapsed, result, stage, moves, cand, score >>

\* Line 414, then advanced_move_search lines 385-387.
EvalRollback ==
    /\ pc = "rollback"
    /\ board' = [board EXCEPT ![cand[3]][cand[2]][cand[1]] = 0]
    /\ IF TotalScore(score) > best_score
       THEN /\ best_score' = TotalScore(score)
            /\ best_move' = << cand[1], cand[2] >>
       ELSE UNCHANGED << best_score, best_move >>
    /\ scores' = Append(scores, TotalScore(score))
    /\ idx' = idx + 1
    /\ pc' = "loop"
    /\ UNCHANGED << passed, player, elapsed, result, stage, moves, cand, score >>

(***************************************************************************)
(* The caller takes the move; the engine is ready for the next call.       *)
(***************************************************************************)
GetMoveReturn ==
    /\ pc = "done"
    /\ pc' = "idle"
    /\ board' = EmptyBoard
    /\ passed' = EmptyBoard
    /\ player' = 1
    /\ elapsed' = 0
    /\ result' = None
    /\ stage' = "none"
    /\ moves' = << >>
    /\ idx' = 1
    /\ best_move' = None
    /\ best_score' = NegInf
    /\ cand' = << >>
    /\ score' = NoScore
    /\ scores' = << >>

Next ==
    \/ GetMoveCall
    \/ StageWin
    \/ StageBlock
    \/ StageOpening
    \/ StageDoubleThreat
    \/ StageBlockDouble
    \/ SearchStart
    \/ SearchLoop
    \/ EvalSimulate
    \/ EvalThreatSpace
    \/ EvalPositionControl
    \/ EvalConnectivity
    \/ EvalBlockingValue
    \/ EvalFuturePotential
    \/ EvalRollback
    \/ GetMoveReturn

Spec == Init /\ [][Next]_vars

(***************************************************************************)
(* The board primitives on their own: a drop into a column that has room   *)
(* (lines 72-75) and the clearing of the cell written (lines 77-79), on    *)
(* boards whose ProbeColumn holds any four cells of {0, 1, 2}.             *)
(***************************************************************************)
ProbeColumn == << 1, 2 >>

ProbeBoards ==
    {[z \in Idx |-> [y \in Idx |-> [x \in Idx |->
        IF << x, y >> = ProbeColumn THEN column[z] ELSE 0]]] :
     column \in [Idx -> {0, 1, 2}]}

BoardInit ==
    /\ pc = "board"
    /\ board \in ProbeBoards
    /\ passed = board
    /\ player = 1
    /\ elapsed = 0
    /\ result = None
    /\ stage = "none"
    /\ moves = << >>
    /\ idx = 1
    /\ best_move = None
    /\ best_score = NegInf
    /\ cand = << >>
    /\ score = NoScore
    /\ scores = << >>

\* board[drop_z][y][x] = player, for the drop position of a column.
WritePiece ==
    /\ pc = "board"
    /\ cand = << >>
    /\ \E x \in Idx, y \in Idx, p \in Players :
          \E drop_z \in {get_drop_position(board, x, y)} :
             /\ drop_z # PyNone
             /\ board' = [board EXCEPT ![drop_z][y][x] = p]
             /\ cand' = << x, y, drop_z >>
             /\ player' = p
    /\ UNCHANGED << pc, passed, elapsed, result, stage,
                    moves, idx, best_move, best_score, score, scores >>

\* board[drop_z][y][x] = 0, for the cell written last.
ClearPiece ==
    /\ pc = "board"
    /\ cand # << >>
    /\ board' = [board EXCEPT ![cand[3]][cand[2]][cand[1]] = 0]
    /\ cand' = << >>
    /\ UNCHANGED << pc, passed, player, elapsed, result, stage,
                    moves, idx, best_move, best_score, score, scores >>

BoardNext == WritePiece \/ ClearPiece

BoardSpec == BoardInit /\ [][BoardNext]_vars

(***************************************************************************)
(* The line functions on their own.  The boards: one line of the catalog   *)
(* for each of the thirteen directions, holding any four cells of          *)
(* {0, 1, 2}, with the cells beneath it either all filled or all empty;    *)
(* then pieces are written and cleared as above.                           *)
(***************************************************************************)
ProbeLines == {7, 22, 41, 51, 54, 58, 61, 68, 71, 73, 74, 75, 76}

LineBoard(line, cells, supported) ==
    [z \in Idx |-> [y \in Idx |-> [x \in Idx |->
        IF \E i \in 1 .. 4 : line[i] = << x, y, z >>
        THEN cells[CHOOSE i \in 1 .. 4 : line[i] = << x, y, z >>]
        ELSE IF supported /\ \E i \in 1 .. 4 :
                    line[i][1] = x /\ line[i][2] = y /\ z < line[i][3]
        THEN FullStack[z + 1]
        ELSE 0]]]

LineBoards ==
    {LineBoard(get_all_winning_lines[k], cells, supported) :
        k \in ProbeLines, cells \in [1 .. 4 -> {0, 1, 2}], supported \in BOOLEAN}

LineInit ==
    /\ pc = "board"
    /\ board \in LineBoards
    /\ passed = board
    /\ player = 1
    /\ elapsed = 0
    /\ result = None
    /\ stage = "none"
    /\ moves = << >>
    /\ idx = 1
    /\ best_move = None
    /\ best_score = NegInf
    /\ cand = << >>
    /\ score = NoScore
    /\ scores = << >>

LineSpec == LineInit /\ [][BoardNext]_vars

(***************************************************************************)
(* The win test on its own, on the probe lines with nothing beneath them:  *)
(* check_win_fast reads the cells of a board and asks nothing of gravity.  *)
(***************************************************************************)
WinBoards ==
    {LineBoard(get_all_winning_lines[k], cells, FALSE) :
        k \in ProbeLines, cells \in [1 .. 4 -> {0, 1, 2}]}

WinInit ==
    /\ pc = "board"
    /\ board \in WinBoards
    /\ passed = board
    /\ player = 1
    /\ elapsed = 0
    /\ result = None
    /\ stage = "none"
    /\ moves = << >>
    /\ idx = 1
    /\ best_move = None
    /\ best_score = NegInf
    /\ cand = << >>
    /\ score = NoScore
    /\ scores = << >>

WinSpec == WinInit /\ [][BoardNext]_vars

(***************************************************************************)
(* What the properties speak of, defined from the geometry of the board    *)
(* and not from the engine's own tests.                                    *)
(***************************************************************************)
Columns == Idx \X Idx

Cells == Idx \X Idx \X Idx

\* Some cell of column c is empty.
HasRoom(b, c) == \E z \in Idx : b[z][c[2]][c[1]] = 0

\* The lowest empty height of column c, which has room.
LowestEmpty(b, c) ==
    CHOOSE z \in Idx : /\ b[z][c[2]][c[1]] = 0
                       /\ \A w \in Idx : w < z => b[w][c[2]][c[1]] # 0

\* b with p's piece dropped into column c, which has room.
AfterDrop(b, p, c) == [b EXCEPT ![LowestEmpty(b, c)][c[2]][c[1]] = p]

\* The four-cell lines of the cube: four cells in range, each one step of a
\* direction from the last.
StraightLines ==
    {{<< s[1] + i * d[1], s[2] + i * d[2], s[3] + i * d[3] >> : i \in 0 .. 3} :
        << s, d >> \in {sd \in Cells \X NeighbourDirections :
            /\ InRange(sd[1][1] + 3 * sd[2][1])
            /\ InRange(sd[1][2] + 3 * sd[2][2])
            /\ InRange(sd[1][3] + 3 * sd[2][3])}}

\* Line holds p's pieces in every cell.
FourInLine(b, p, line) == \A c \in line : b[c[3]][c[2]][c[1]] = p

\* The columns where p's drop completes a four-in-line for p.
WinningColumns(b, p) ==
    {c \in Columns :
        /\ HasRoom(b, c)
        /\ \E line \in StraightLines :
              /\ << c[1], c[2], LowestEmpty(b, c) >> \in line
              /\ FourInLine(AfterDrop(b, p, c), p, line)}

\* The lines that hold three pieces of p and one empty cell that is the
\* drop position of its column.
OpenThreats(b, p) ==
    {line \in StraightLines :
        /\ Cardinality({c \in line : b[c[3]][c[2]][c[1]] = p}) = 3
        /\ \E c \in line :
              /\ b[c[3]][c[2]][c[1]] = 0
              /\ LowestEmpty(b, << c[1], c[2] >>) = c[3]}

Returned == pc = "done"

(***************************************************************************)
(* C1: for a player 1 or 2 and a board with a column that has room,        *)
(* get_move returns a column <<x, y>> in range that has room, whatever the *)
(* clock tests found.                                                      *)
(***************************************************************************)
MoveHasRoom ==
    (Returned /\ player \in Players /\ \E c \in Columns : HasRoom(passed, c))
        => (result \in Columns /\ HasRoom(passed, result))

\* The loop deadline passed before any candidate was scored, on a board
\* whose first priority column is full.
MoveHasRoomWitness ==
    /\ Returned /\ player \in Players
    /\ stage = "fallback"
    /\ ~ HasRoom(passed, << 1, 1 >>)
    /\ result \in Columns /\ HasRoom(passed, result)

(***************************************************************************)
(* C2: when some column's drop completes a four-in-line for the mover,     *)
(* get_move returns such a column; when there is exactly one, that one.    *)
(***************************************************************************)
WinMoveTaken ==
    (Returned /\ player \in Players)
        => \A W \in {WinningColumns(passed, player)} :
              /\ W # {} => result \in W
              /\ Cardinality(W) = 1 => W = {result}

\* Three own pieces stacked at heights 0-2, height 3 empty, the only win.
WinMoveTakenWitness ==
    /\ Returned /\ player \in Players
    /\ stage = "win"
    /\ WinningColumns(passed, player) = {result}
    /\ \A z \in 0 .. 2 : passed[z][result[2]][result[1]] = player
    /\ passed[3][result[2]][result[1]] = 0

(***************************************************************************)
(* C3: when the opponent has a column whose drop completes a four-in-line  *)
(* and the mover has none, get_move returns a column where the opponent's  *)
(* drop would have completed one.                                          *)
(***************************************************************************)
BlockMoveTaken ==
    (/\ Returned /\ player \in Players
     /\ WinningColumns(passed, player) = {}
     /\ WinningColumns(passed, 3 - player) # {})
        => result \in WinningColumns(passed, 3 - player)

BlockMoveTakenWitness ==
    /\ Returned /\ player \in Players
    /\ stage = "block"
    /\ WinningColumns(passed, player) = {}
    /\ result \in WinningColumns(passed, 3 - player)

(***************************************************************************)
(* C4: when get_move has returned, every cell of the caller's board holds  *)
(* what it held at the call.                                               *)
(***************************************************************************)
BoardRestored == Returned => board = passed

\* The search scored candidates (each with two simulated placements) and
\* returned the best.
BoardRestoredWitness ==
    /\ Returned /\ stage = "search"
    /\ best_move # None /\ idx > Len(moves)
    /\ board = passed

(***************************************************************************)
(* C5: the catalog get_all_winning_lines builds for the evaluation has 76  *)
(* lines of four distinct cells in range, no two with the same cells: 16   *)
(* along each axis, 24 planar diagonals and 4 space diagonals.             *)
(***************************************************************************)
LineCells(line) == {line[i] : i \in 1 .. Len(line)}

\* The coordinates (1 = x, 2 = y, 3 = z) that vary along a line.
VaryingAxes(line) ==
    {a \in 1 .. 3 : \E i \in 1 .. Len(line) : line[i][a] # line[1][a]}

CatalogLines(axes) ==
    {k \in 1 .. Len(get_all_winning_lines) :
        VaryingAxes(get_all_winning_lines[k]) = axes}

CatalogShape ==
    /\ Len(get_all_winning_lines) = 76
    /\ \A k \in 1 .. Len(get_all_winning_lines) :
          /\ Len(get_all_winning_lines[k]) = 4
          /\ LineCells(get_all_winning_lines[k]) \subseteq Cells
          /\ Cardinality(LineCells(get_all_winning_lines[k])) = 4
    /\ \A j, k \in 1 .. Len(get_all_winning_lines) :
          j # k => LineCells(get_all_winning_lines[j]) # LineCells(get_all_winning_lines[k])
    /\ \A a \in 1 .. 3 : Cardinality(CatalogLines({a})) = 16
    /\ Cardinality(CatalogLines({1, 2}) \cup CatalogLines({1, 3})
                   \cup CatalogLines({2, 3})) = 24
    /\ Cardinality(CatalogLines({1, 2, 3})) = 4

\* The catalog that analyze_threat_space and evaluate_position_control have
\* just walked through has that shape.
LineCatalogShape == pc \in {"position", "connectivity"} => CatalogShape

\* evaluate_position_control has counted the lines through a candidate
\* cell that lies on seven of the 76.
LineCatalogShapeWitness ==
    /\ pc = "connectivity"
    /\ Len(get_all_winning_lines) = 76
    /\ Cardinality(LinesThrough(cand[1], cand[2], cand[3])) = 7
    /\ score.position >= 7 * 30

(***************************************************************************)
(* C6: on the empty board with player 1 to move, get_move returns one of   *)
(* the four central columns.                                               *)
(***************************************************************************)
CentralColumns == { << 1, 1 >>, << 1, 2 >>, << 2, 1 >>, << 2, 2 >> }

EmptyBoardOpening ==
    (Returned /\ passed = EmptyBoard /\ player = 1) => result \in CentralColumns

EmptyBoardOpeningWitness ==
    /\ Returned /\ passed = EmptyBoard /\ player = 1
    /\ stage = "opening"
    /\ result = << 1, 1 >>

(***************************************************************************)
(* C7: get_drop_position(board, x, y) is the lowest z whose cell of column *)
(* (x, y) is empty, and None exactly when the column is full or x or y is  *)
(* outside 0..3; after a piece is written at height 3 the column reports   *)
(* None.                                                                   *)
(***************************************************************************)
DropPositionLowestEmpty ==
    /\ \A x, y \in -1 .. N :
          get_drop_position(board, x, y) =
              IF InRange(x) /\ InRange(y) /\ HasRoom(board, << x, y >>)
              THEN LowestEmpty(board, << x, y >>)
              ELSE PyNone
    /\ (pc = "board" /\ cand # << >> /\ cand[3] = 3)
          => get_drop_position(board, cand[1], cand[2]) = PyNone

\* The column held [1, 2, 1]; player 2's piece was written at height 3.
DropPositionWitness ==
    /\ pc = "board" /\ cand = << ProbeColumn[1], ProbeColumn[2], 3 >> /\ player = 2
    /\ \A z \in Idx : passed[z][ProbeColumn[2]][ProbeColumn[1]] = << 1, 2, 1, 0 >>[z + 1]
    /\ board[3][ProbeColumn[2]][ProbeColumn[1]] = 2
    /\ get_drop_position(board, ProbeColumn[1], ProbeColumn[2]) = PyNone

(***************************************************************************)
(* C8: when get_move catches an exception and returns safe_emergency_move, *)
(* the column returned has room whenever some column of the board has.     *)
(***************************************************************************)
EmergencyMoveHasRoom ==
    (Returned /\ stage = "emergency" /\ \E c \in Columns : HasRoom(passed, c))
        => (result \in Columns /\ HasRoom(passed, result))

(***************************************************************************)
(* C9: get_move returns the move of the first stage, in the order win,     *)
(* block, opening book, own double threat, opponent's double threat,       *)
(* search, fallback, that yields one: no earlier stage yielded a move; the *)
(* mover's win comes before the opponent's; the opening book is not used   *)
(* when a win or a block exists.                                           *)
(***************************************************************************)
StageOrder ==
    << "win", "block", "opening", "double_threat", "block_double", "search", "fallback" >>

StageRank(name) == CHOOSE k \in 1 .. Len(StageOrder) : StageOrder[k] = name

\* The move stage k yields on board b for mover p when its deadline has not
\* passed (stages 1 to 5).
StageYield(k, b, p) ==
    CASE k = 1 -> find_immediate_win(b, p).move
      [] k = 2 -> find_immediate_win(b, 3 - p).move
      [] k = 3 -> IF is_early_game(b) THEN get_opening_move(b, p) ELSE None
      [] k = 4 -> find_double_threat_move(b, p, FALSE).move
      [] k = 5 -> find_double_threat_move(b, 3 - p, FALSE).move

StagesInOrder ==
    (Returned /\ player \in Players)
        => /\ \E k \in 1 .. Len(StageOrder) : StageOrder[k] = stage
           /\ \A k \in 1 .. 3 : k < StageRank(stage) => StageYield(k, passed, player) = None
           /\ \A k \in 4 .. 5 : (k < StageRank(stage) /\ elapsed = 0)
                                    => StageYield(k, passed, player) = None
           /\ StageRank(stage) <= 5 => result = StageYield(StageRank(stage), passed, player)
           /\ (WinningColumns(passed, player) # {} /\ WinningColumns(passed, 3 - player) # {})
                 => (stage = "win" /\ result \in WinningColumns(passed, player))
           /\ stage = "opening"
                 => (WinningColumns(passed, player) = {} /\ WinningColumns(passed, 3 - player) = {})

\* Both sides had a winning column and the mover's was returned.
StagesInOrderWitness ==
    /\ Returned /\ player \in Players
    /\ WinningColumns(passed, player) # {}
    /\ WinningColumns(passed, 3 - player) # {}
    /\ result \notin WinningColumns(passed, 3 - player)
    /\ stage = "win"

(***************************************************************************)
(* C10: whenever find_double_threat_move returns a move for a player,      *)
(* playing it leaves that player at least two lines of three own pieces    *)
(* and one empty, immediately playable cell.                               *)
(***************************************************************************)
DoubleThreatCreated ==
    Returned =>
        /\ stage = "double_threat"
              => Cardinality(OpenThreats(AfterDrop(passed, player, result), player)) >= 2
        /\ stage = "block_double"
              => Cardinality(OpenThreats(AfterDrop(passed, 3 - player, result), 3 - player)) >= 2

(***************************************************************************)
(* C11: when the scored search runs out of time, get_move returns the      *)
(* candidate with the highest score among those evaluated so far, the      *)
(* earliest of get_ordered_moves among equal scores; when no candidate was *)
(* evaluated it returns the move of strategic_fallback, never None.        *)
(***************************************************************************)
SearchTimedOut ==
    /\ Returned
    /\ stage \in {"search", "fallback"}
    /\ elapsed >= SearchDeadline

\* k is the earliest candidate with the highest of the scores so far.
EarliestBest(k) ==
    /\ k \in 1 .. Len(scores)
    /\ \A j \in 1 .. Len(scores) :
          /\ scores[j] <= scores[k]
          /\ j < k => scores[j] < scores[k]

BestSoFarReturned ==
    SearchTimedOut =>
        /\ result # None
        /\ Len(scores) <= Len(moves)
        /\ IF scores = << >>
           THEN result = strategic_fallback(passed)
           ELSE \E k \in 1 .. Len(scores) :
                   EarliestBest(k) /\ result = moves[k]

\* The loop broke after at least two and before all candidates; the best
\* is not the first one, and a later candidate has the same score.
BestSoFarReturnedWitness ==
    /\ SearchTimedOut
    /\ elapsed = LoopDeadline
    /\ Len(scores) >= 2
    /\ Len(scores) < Len(moves)
    /\ \E k \in 2 .. Len(scores) :
          /\ EarliestBest(k)
          /\ result = moves[k]
          /\ \E j \in 1 .. Len(scores) : j > k /\ scores[j] = scores[k]


(***************************************************************************)
(* C12: for a line with three pieces of one player, none of the other and  *)
(* one empty cell, analyze_line_threats reports an immediate threat (the   *)
(* three are the player's) or blocking needed (the three are the           *)
(* opponent's) exactly when the empty cell is the drop position of its     *)
(* column; for a line with pieces of both it reports no threat at all.     *)
(***************************************************************************)
PieceCount(b, line, p) ==
    Cardinality({i \in 1 .. 4 : b[line[i][3]][line[i][2]][line[i][1]] = p})

\* Line has three pieces of p and one empty cell.
ThreeAndEmpty(b, line, p) ==
    PieceCount(b, line, p) = 3 /\ PieceCount(b, line, 0) = 1

\* The empty cell of such a line is where the next piece of its column lands.
EmptyCellIsDrop(b, line) ==
    \E i \in 1 .. 4 :
        /\ b[line[i][3]][line[i][2]][line[i][1]] = 0
        /\ LowestEmpty(b, << line[i][1], line[i][2] >>) = line[i][3]

LineThreatsAt(b, line, p) ==
    LET threats == analyze_line_threats(b, line, p, 3 - p)
    IN  /\ ThreeAndEmpty(b, line, p) =>
              (threats.immediate_threat <=> EmptyCellIsDrop(b, line))
        /\ ThreeAndEmpty(b, line, 3 - p) =>
              (threats.blocking_needed <=> EmptyCellIsDrop(b, line))
        /\ (PieceCount(b, line, p) > 0 /\ PieceCount(b, line, 3 - p) > 0) =>
              threats = NoThreat

LineThreatsPlayable ==
    pc = "board" =>
        \A k \in ProbeLines, p \in Players :
            LineThreatsAt(board, get_all_winning_lines[k], p)

\* After a piece was written: a probe line with three pieces of player 1
\* whose empty cell is not playable and reports nothing, one whose empty
\* cell is playable and reports the threat for 1 and the block for 2, and
\* one with pieces of both players.
LineThreatsPlayableWitness ==
    /\ pc = "board" /\ cand # << >>
    /\ \E k \in ProbeLines :
          /\ ThreeAndEmpty(board, get_all_winning_lines[k], 1)
          /\ ~EmptyCellIsDrop(board, get_all_winning_lines[k])
          /\ ~analyze_line_threats(board, get_all_winning_lines[k], 1, 2).immediate_threat
    /\ \E k \in ProbeLines :
          /\ ThreeAndEmpty(board, get_all_winning_lines[k], 1)
          /\ EmptyCellIsDrop(board, get_all_winning_lines[k])
          /\ analyze_line_threats(board, get_all_winning_lines[k], 1, 2).immediate_threat
          /\ analyze_line_threats(board, get_all_winning_lines[k], 2, 1).blocking_needed
    /\ \E k \in ProbeLines :
          /\ PieceCount(board, get_all_winning_lines[k], 1) > 0
          /\ PieceCount(board, get_all_winning_lines[k], 2) > 0


(***************************************************************************)
(* C13: for a cell that holds a piece of player p, 1 or 2, check_win_fast  *)
(* from that cell is true exactly when some line of get_all_winning_lines  *)
(* through the cell has p in all four cells.                               *)
(***************************************************************************)
\* For each cell, the lines of the catalog that contain it.
CatalogLinesAt ==
    [c \in Cells |->
        {k \in 1 .. Len(get_all_winning_lines) :
            \E i \in 1 .. 4 : get_all_winning_lines[k][i] = c}]

CatalogWinAt(b, p, x, y, z) ==
    \E k \in CatalogLinesAt[<< x, y, z >>] :
        \A i \in 1 .. 4 :
            b[get_all_winning_lines[k][i][3]][get_all_winning_lines[k][i][2]]
             [get_all_winning_lines[k][i][1]] = p

WinTestAgreesWithCatalog ==
    pc = "board" =>
        \A c \in Cells, p \in Players :
            board[c[3]][c[2]][c[1]] = p =>
                (check_win_fast(board, p, c[1], c[2], c[3])
                    <=> CatalogWinAt(board, p, c[1], c[2], c[3]))

\* A probe line is full of the player's pieces and the scan from one of
\* its cells sees it; the scan from that player's piece written last, off
\* the line, does not.
WinTestAgreesWithCatalogWitness ==
    /\ pc = "board" /\ cand # << >>
    /\ board[cand[3]][cand[2]][cand[1]] = player
    /\ ~check_win_fast(board, player, cand[1], cand[2], cand[3])
    /\ ~CatalogWinAt(board, player, cand[1], cand[2], cand[3])
    /\ \E c \in Cells :
          /\ board[c[3]][c[2]][c[1]] = player
          /\ check_win_fast(board, player, c[1], c[2], c[3])
          /\ CatalogWinAt(board, player, c[1], c[2], c[3])


(***************************************************************************)
(* C14: while evaluate_move_advanced scores a candidate, from the          *)
(* simulated placement to the rollback, the candidate cell holds the       *)
(* mover's piece at every sub-evaluation, and the future potential is the  *)
(* one counted with that piece on the board.                               *)
(***************************************************************************)
CandidatePieceHeld ==
    /\ pc \in {"threat", "position", "connectivity", "blocking", "future"}
          => board[cand[3]][cand[2]][cand[1]] = player
    /\ pc = "rollback"
          => score.future =
                 calculate_future_potential(
                     [board EXCEPT ![cand[3]][cand[2]][cand[1]] = player],
                     cand[1], cand[2], cand[3], player)

====
